---- MODULE Spec2Model ----
(***************************************************************************)
(* Attendance viewer/editor backed by a Google Sheets spreadsheet:         *)
(* token cache (GoogleSheetsAuth), gateway (GoogleSheetsData), parse       *)
(* pipeline (model.js, attendanceStatus.js) and the session hook          *)
(* (useGoogleSheets).                                                      *)
(*                                                                         *)
(* Text is a sequence of one-character strings, so that trim, case        *)
(* folding and comparison are computed, not assumed.  Characters outside  *)
(* ASCII are written as named pseudo-characters such as "<mieum>".         *)
(*                                                                         *)
(* An action is one event-loop task: the code that runs from the arrival  *)
(* of one I/O completion (or a user event) up to the next suspension on   *)
(* I/O, with the promise continuations that run in the same task.          *)
(***************************************************************************)
EXTENDS Integers, Sequences, FiniteSets, TLC

(***************************************************************************)
(* Bounds of the model.                                                    *)
(***************************************************************************)
\* events the environment may produce in one behaviour: calls of the user or
\* the timer, failures of the network, writes by other clients, clock ticks
MaxEvents == 3

(***************************************************************************)
(* JavaScript text helpers.                                                *)
(***************************************************************************)
Undefined == <<"<undefined>">>

IsFalsy(v) == v = Undefined \/ v = <<>>

LowerChar(c) ==
    CASE c = "A" -> "a" [] c = "E" -> "e" [] c = "N" -> "n" [] c = "O" -> "o"
      [] c = "T" -> "t" [] c = "X" -> "x" [] c = "C" -> "c"
      [] OTHER -> c

ToLowerCase(s) == [i \in 1..Len(s) |-> LowerChar(s[i])]

RECURSIVE TrimStart(_)
TrimStart(s) == IF s # <<>> /\ Head(s) = " " THEN TrimStart(Tail(s)) ELSE s

RECURSIVE TrimEnd(_)
TrimEnd(s) ==
    IF s # <<>> /\ s[Len(s)] = " " THEN TrimEnd(SubSeq(s, 1, Len(s) - 1)) ELSE s

Trim(s) == TrimEnd(TrimStart(s))

\* row[i] of a JavaScript array: undefined outside the array
At(row, i) == IF i >= 1 /\ i <= Len(row) THEN row[i] ELSE Undefined

(***************************************************************************)
(* attendanceStatus.js                                                     *)
(***************************************************************************)
ATTENDANCE_STATUS ==
    [PRESENT |-> <<"O">>, ABSENT |-> <<"X">>, ESSAY |-> <<"<mieum>">>,
     LATE |-> <<"<i>">>, EARLY_LEAVE |-> <<"<digeut>">>,
     OTHER_ |-> <<"E", "t", "c">>, NONE |-> <<"N", "o", "n", "e">>]

\* the keys of ATTENDANCE_CONFIG (LATE and EARLY_LEAVE are commented out)
ATTENDANCE_CONFIG_KEYS ==
    {ATTENDANCE_STATUS.PRESENT, ATTENDANCE_STATUS.ABSENT, ATTENDANCE_STATUS.ESSAY,
     ATTENDANCE_STATUS.OTHER_, ATTENDANCE_STATUS.NONE}

DisplayName(status) ==
    CASE status = ATTENDANCE_STATUS.PRESENT -> <<"<chul>", "<seok>">>
      [] status = ATTENDANCE_STATUS.ABSENT -> <<"<gyeol>", "<seok>">>
      [] status = ATTENDANCE_STATUS.ESSAY -> <<"<so>", "<gam>", "<mun>">>
      [] status = ATTENDANCE_STATUS.OTHER_ -> <<"<gi>", "<ta>">>
      [] OTHER -> <<"<mi>", "<ip>", "<ryeok>">>

\* parseAttendanceCell throws a TypeError where it reads .displayName of a
\* configuration entry that does not exist
ParseAttendanceCellThrows(cellValue) ==
    /\ ~IsFalsy(cellValue)
    /\ Trim(cellValue) \in {ATTENDANCE_STATUS.LATE, ATTENDANCE_STATUS.EARLY_LEAVE}
    /\ Trim(cellValue) \notin ATTENDANCE_CONFIG_KEYS

ParseAttendanceCell(cellValue) ==
    IF IsFalsy(cellValue) \/ Trim(cellValue) = <<>> \/ Trim(cellValue) = <<"-">>
    THEN [status |-> ATTENDANCE_STATUS.NONE, desc |-> <<>>]
    ELSE LET value == Trim(cellValue) IN
         IF value = ATTENDANCE_STATUS.PRESENT
         THEN [status |-> ATTENDANCE_STATUS.PRESENT, desc |-> <<>>]
         ELSE IF value = ATTENDANCE_STATUS.ABSENT
         THEN [status |-> ATTENDANCE_STATUS.ABSENT, desc |-> <<>>]
         ELSE IF value \in {ATTENDANCE_STATUS.ESSAY, ATTENDANCE_STATUS.LATE,
                            ATTENDANCE_STATUS.EARLY_LEAVE}
         THEN [status |-> value, desc |-> DisplayName(value)]
         ELSE [status |-> ATTENDANCE_STATUS.OTHER_, desc |-> value]

(***************************************************************************)
(* model.js                                                                *)
(***************************************************************************)
IsDigit(c) == c \in {"0", "1", "2", "3", "4", "5", "6", "7", "8", "9"}

DigitVal(c) ==
    CASE c = "0" -> 0 [] c = "1" -> 1 [] c = "2" -> 2 [] c = "3" -> 3
      [] c = "4" -> 4 [] c = "5" -> 5 [] c = "6" -> 6 [] c = "7" -> 7
      [] c = "8" -> 8 [] OTHER -> 9

RECURSIVE LeadingDigits(_, _)
LeadingDigits(s, acc) ==
    IF s # <<>> /\ IsDigit(Head(s))
    THEN LeadingDigits(Tail(s), acc * 10 + DigitVal(Head(s)))
    ELSE acc

\* parseInt(text, 10): the leading digits, NaN when there are none
ParseIntIsNaN(s) ==
    LET t == TrimStart(s)
        u == IF t # <<>> /\ Head(t) \in {"-", "+"} THEN Tail(t) ELSE t
    IN  u = <<>> \/ ~IsDigit(Head(u))

ParseInt(s) ==
    LET t == TrimStart(s)
        neg == t # <<>> /\ Head(t) = "-"
        u == IF t # <<>> /\ Head(t) \in {"-", "+"} THEN Tail(t) ELSE t
    IN  IF neg THEN 0 - LeadingDigits(u, 0) ELSE LeadingDigits(u, 0)

RECURSIVE SplitDots(_, _)
SplitDots(s, cur) ==
    IF s = <<>> THEN <<cur>>
    ELSE IF Head(s) = "." THEN <<cur>> \o SplitDots(Tail(s), <<>>)
    ELSE SplitDots(Tail(s), Append(cur, Head(s)))

NoDate == [isNull |-> TRUE, year |-> 0, month |-> 0, day |-> 0]

parseDateString(dateString) ==
    IF IsFalsy(dateString) THEN NoDate
    ELSE LET dateStr == Trim(dateString)
             split == SplitDots(dateStr, <<>>)
             trimmed == [i \in 1..Len(split) |-> Trim(split[i])]
             parts == SelectSeq(trimmed, LAMBDA part : part # <<>>)
         IN  IF Len(parts) = 3
                /\ ~ParseIntIsNaN(parts[1]) /\ ~ParseIntIsNaN(parts[2])
                /\ ~ParseIntIsNaN(parts[3])
             THEN [isNull |-> FALSE, year |-> ParseInt(parts[1]),
                   month |-> ParseInt(parts[2]), day |-> ParseInt(parts[3])]
             ELSE NoDate

RECURSIVE HeaderFrom(_, _, _)
HeaderFrom(lectureRow, dateRow, i) ==
    IF i > Len(lectureRow) THEN <<>>
    ELSE IF IsFalsy(At(lectureRow, i)) \/ IsFalsy(At(dateRow, i))
    THEN HeaderFrom(lectureRow, dateRow, i + 1)
    ELSE <<[lecture |-> Trim(lectureRow[i]),
            date |-> parseDateString(dateRow[i])]>>
         \o HeaderFrom(lectureRow, dateRow, i + 1)

\* getHeader whose loop starts at column B
getHeader_fromB(values) ==
    IF Len(values) < 2 THEN <<>> ELSE HeaderFrom(values[1], values[2], 2)

\* the loop starts at index 2 of a 0-based array: position 3 here
getHeader(values) ==
    IF Len(values) < 2 THEN <<>> ELSE HeaderFrom(values[1], values[2], 3)

parseUserInfo(nameCell, classCell) ==
    [name |-> IF IsFalsy(nameCell) THEN <<>> ELSE Trim(nameCell),
     class |-> IF IsFalsy(classCell) THEN <<>> ELSE Trim(classCell)]

parseAttendanceInfo(row, headerLength) ==
    [i \in 1..headerLength |-> ParseAttendanceCell(At(row, i + 2))]

parseAttendanceInfoThrows(row, headerLength) ==
    \E i \in 1..headerLength : ParseAttendanceCellThrows(At(row, i + 2))

getDataRowsThrows(values, headerLength) ==
    /\ Len(values) > 2
    /\ \E r \in 3..Len(values) : parseAttendanceInfoThrows(values[r], headerLength)

\* getDataRows that keeps the rows without a name
getDataRows_nofilter(values, headerLength) ==
    IF Len(values) <= 2 THEN <<>>
    ELSE LET dataRows == SubSeq(values, 3, Len(values))
         IN  [r \in 1..Len(dataRows) |->
                [user |-> parseUserInfo(At(dataRows[r], 1), At(dataRows[r], 2)),
                 attendance |-> parseAttendanceInfo(dataRows[r], headerLength)]]

getDataRows(values, headerLength) ==
    IF Len(values) <= 2 THEN <<>>
    ELSE LET dataRows == SubSeq(values, 3, Len(values))
             rows == [r \in 1..Len(dataRows) |->
                        [user |-> parseUserInfo(At(dataRows[r], 1), At(dataRows[r], 2)),
                         attendance |-> parseAttendanceInfo(dataRows[r], headerLength)]]
         IN  SelectSeq(rows, LAMBDA item : item.user.name # <<>>)

\* getRowAddress that skips the header rows but is 0-based
getRowAddress_zerobased(rowIndex) == rowIndex + 2

getRowAddress(rowIndex) == rowIndex + 3

\* String.fromCharCode(67 + colIndex), kept as the character code
getColAddress(colIndex) == 67 + colIndex

emptyStates ==
    {<<>>, <<"-">>, <<"n", "o", "n", "e">>, <<"n", "u", "l", "l">>,
     <<"u", "n", "d", "e", "f", "i", "n", "e", "d">>,
     <<"<mi>", "<gi>", "<rok>">>, <<"N", "/", "A">>, <<"n", "/", "a">>}

normalize(value) ==
    IF IsFalsy(value) THEN <<>>
    ELSE LET trimmed == Trim(value) IN
         IF ToLowerCase(trimmed) \in emptyStates THEN <<>> ELSE trimmed

\* isEqualStatus that compares case-sensitively
isEqualStatus_casesensitive(value1, value2) == normalize(value1) = normalize(value2)

isEqualStatus(value1, value2) ==
    ToLowerCase(normalize(value1)) = ToLowerCase(normalize(value2))

(***************************************************************************)
(* Inputs of the environment.                                              *)
(***************************************************************************)
SAFETY_MARGIN == 300

\* expires_in values the token endpoint may declare
LifetimeSet == {300, 301}

HTTP_OK == 200
HTTP_UNAUTHORIZED == 401
HTTP_SERVER_ERROR == 500

Statuses == {HTTP_OK, HTTP_UNAUTHORIZED, HTTP_SERVER_ERROR}

\* error.message texts a server may put in an error body, as words
ServerTexts == {<<"Internal", "error">>, <<"CONFLICT:", "revision">>}

\* outcomes of one authenticate() that had to sign and exchange
ExchangeOutcomes ==
    [kind : {"ok"}, expires_in : LifetimeSet, text : {<<>>}]
    \cup [kind : {"exfail"}, expires_in : {0}, text : ServerTexts]

IsFault(x) == x.kind # "ok" \/ x.expires_in <= SAFETY_MARGIN

\* the spreadsheet at start: two header rows, two students, two lectures
InitialSheet ==
    << << <<>>, <<>>, <<"L", "1">>, <<"L", "2">> >>,
       << <<>>, <<>>, <<"1", ".", "2", ".", "3">>, <<"1", ".", "2", ".", "4">> >>,
       << <<"K", "i", "m">>, <<"A">>, <<"O">>, <<>> >>,
       << <<"L", "e", "e">>, <<"B">>, <<"X">>, <<"O">> >> >>

\* values another client may type into an attendance cell
RemoteValues == {<<>>, <<"X">>, <<"-">>}

\* values the user may pass to updateCell
NewValues == {<<"l", "a", "t", "e">>}

RowInputs == -1..2
ColInputs == -1..2

Loads == 1..(MaxEvents + 1)
Upds == 101..(100 + MaxEvents)
Procs == Loads \cup Upds

(***************************************************************************)
(* State.                                                                  *)
(***************************************************************************)
VARIABLES
    now,                 \* Date.now(), in seconds
    sheet,               \* the remote spreadsheet
    accessToken,         \* GoogleSheetsAuth.accessToken, 0 for null
    tokenExpiryTime,     \* GoogleSheetsAuth.tokenExpiryTime, 0 for null
    data,                \* useState data
    heap,                \* the dataRows arrays, by reference
    loading,             \* useState loading
    error,               \* useState error, <<>> for null
    lastFetch,           \* useState lastFetch, 0 for null
    cellUpdateLoading,   \* useState cellUpdateLoading
    isAuthenticatedRef,  \* isAuthenticatedRef.current
    abortControllerRef,  \* abortControllerRef.current, 0 for null
    aborted,             \* the controllers whose signal is aborted
    load,                \* the fetchData calls
    upd,                 \* the updateCell calls
    gw,                  \* the makeApiRequest call of each caller
    nextLoad,            \* the next fetchData call
    nextUpd,             \* the next updateCell call
    exchanges,           \* token exchange requests sent so far
    events,              \* events of the environment so far
    lastCall,            \* the makeApiRequest call the last step settled
    lastArgs,            \* the arguments of the updateCell call of the last step
    probe                \* a caller that uses the services directly

vars == <<now, sheet, accessToken, tokenExpiryTime, data, heap, loading, error,
          lastFetch, cellUpdateLoading, isAuthenticatedRef, abortControllerRef,
          aborted, load, upd, gw, nextLoad, nextUpd, exchanges, events,
          lastCall, lastArgs, probe>>

NoCall == [proc |-> 0, kind |-> "none", reqs |-> 0, exch |-> 0, reauth |-> 0,
           resend |-> "none", first |-> 0, second |-> 0, ok |-> FALSE,
           status |-> 0, tok0 |-> 0, exp0 |-> 0]

NoArgs == [called |-> FALSE, threw |-> FALSE, rowIndex |-> 0, colIndex |-> 0]

\* the state as one record, for the handlers below; lastCall and lastArgs
\* describe one step only
S ==
    [now |-> now, sheet |-> sheet, accessToken |-> accessToken,
     tokenExpiryTime |-> tokenExpiryTime, data |-> data, heap |-> heap,
     loading |-> loading, error |-> error, lastFetch |-> lastFetch,
     cellUpdateLoading |-> cellUpdateLoading,
     isAuthenticatedRef |-> isAuthenticatedRef,
     abortControllerRef |-> abortControllerRef, aborted |-> aborted,
     load |-> load, upd |-> upd, gw |-> gw, nextLoad |-> nextLoad,
     nextUpd |-> nextUpd, exchanges |-> exchanges, events |-> events,
     lastCall |-> NoCall, lastArgs |-> NoArgs, probe |-> probe]

Becomes(next) ==
    \E s \in {next} :
    /\ now' = s.now
    /\ sheet' = s.sheet
    /\ accessToken' = s.accessToken
    /\ tokenExpiryTime' = s.tokenExpiryTime
    /\ data' = s.data
    /\ heap' = s.heap
    /\ loading' = s.loading
    /\ error' = s.error
    /\ lastFetch' = s.lastFetch
    /\ cellUpdateLoading' = s.cellUpdateLoading
    /\ isAuthenticatedRef' = s.isAuthenticatedRef
    /\ abortControllerRef' = s.abortControllerRef
    /\ aborted' = s.aborted
    /\ load' = s.load
    /\ upd' = s.upd
    /\ gw' = s.gw
    /\ nextLoad' = s.nextLoad
    /\ nextUpd' = s.nextUpd
    /\ exchanges' = s.exchanges
    /\ events' = s.events
    /\ lastCall' = s.lastCall
    /\ lastArgs' = s.lastArgs
    /\ probe' = s.probe

\* data.dataRows, dereferenced
DataRowsOf(d, h) == IF d.isNull \/ d.dataRows \notin DOMAIN h THEN <<>> ELSE h[d.dataRows]

NoData == [isNull |-> TRUE, rows |-> <<>>, headers |-> <<>>, dataRows |-> 0,
           hasData |-> FALSE, lastUpdated |-> 0]

NoMark == [status |-> <<>>, desc |-> <<>>]

IdleLoad == [pc |-> "idle", showLoading |-> FALSE, parent |-> 0,
             superseded |-> FALSE, applied |-> FALSE, outcome |-> "none",
             values |-> <<>>, fetched |-> FALSE]

IdleUpd == [pc |-> "idle", rowIndex |-> 0, colIndex |-> 0, newValue |-> <<>>,
            currentValue |-> <<>>, data |-> NoData, preMark |-> NoMark,
            optimistic |-> FALSE, readOk |-> FALSE, readValue |-> <<>>,
            writeCalled |-> FALSE, wrote |-> FALSE, reported |-> "none",
            outcome |-> "none",
            errValue |-> <<>>, resync |-> 0]

IdleCall == [pc |-> "none", kind |-> "none", col |-> 0, row |-> 0,
             value |-> <<>>, reqs |-> 0, exch |-> 0, reauth |-> 0,
             resend |-> "none", first |-> 0, second |-> 0, tok0 |-> 0, exp0 |-> 0]

\* a caller of GoogleSheetsAuth that has called nothing yet
NoProbe == [pc |-> "idle", n |-> 0, op |-> "none", log |-> <<>>,
            call |-> [cache0 |-> 0, valid0 |-> FALSE, cleared0 |-> FALSE],
            t0 |-> 0, lifetime |-> 0]

\* GoogleSheetsAuth and the hook as constructed
Constructed ==
    /\ now = 1
    /\ sheet = InitialSheet
    /\ accessToken = 0
    /\ tokenExpiryTime = 0
    /\ data = NoData
    /\ heap = [f \in Loads |-> <<>>]
    /\ loading = FALSE
    /\ error = <<>>
    /\ lastFetch = 0
    /\ cellUpdateLoading = FALSE
    /\ isAuthenticatedRef = FALSE
    /\ abortControllerRef = 0
    /\ aborted = {}
    /\ load = [f \in Loads |-> IdleLoad]
    /\ upd = [u \in Upds |-> IdleUpd]
    /\ gw = [p \in Procs |-> IdleCall]
    /\ nextLoad = 1
    /\ nextUpd = 101
    /\ exchanges = 0
    /\ events = 0
    /\ lastCall = NoCall
    /\ lastArgs = NoArgs

Init == Constructed /\ probe = NoProbe

(***************************************************************************)
(* GoogleSheetsAuth.js                                                     *)
(***************************************************************************)
isTokenValid(s) ==
    s.accessToken # 0 /\ s.tokenExpiryTime # 0 /\ s.now < s.tokenExpiryTime

\* clearAuthentication that forgets the expiry
clearAuthentication_tokenonly(s) == [s EXCEPT !.accessToken = 0]

clearAuthentication(s) == [s EXCEPT !.accessToken = 0, !.tokenExpiryTime = 0]

\* getAccessToken without the safety margin
getAccessToken_nomargin(s, x) ==
    IF x.kind = "ok"
    THEN [s EXCEPT !.accessToken = s.exchanges + 1,
                   !.tokenExpiryTime = s.now + x.expires_in,
                   !.exchanges = @ + 1]
    ELSE [s EXCEPT !.exchanges = @ + 1]

\* the token endpoint has answered: a new token, expiring expires_in - 300
\* seconds from now, or an error that getAccessToken throws
getAccessToken(s, x) ==
    IF x.kind = "ok"
    THEN [s EXCEPT !.accessToken = s.exchanges + 1,
                   !.tokenExpiryTime = s.now + (x.expires_in - SAFETY_MARGIN),
                   !.exchanges = @ + 1]
    ELSE [s EXCEPT !.exchanges = @ + 1]

\* authenticate() after createJWT and getAccessToken have settled with x;
\* its catch clears the cache
authenticate(s, x) ==
    LET s1 == [s EXCEPT !.events = IF IsFault(x) THEN @ + 1 ELSE @] IN
    IF x.kind = "ok"
    THEN getAccessToken(s1, x)
    ELSE clearAuthentication(getAccessToken(s1, x))

Err(message, status, value) ==
    [message |-> message, status |-> status, value |-> value]

AuthError(x) == Err(<<"auth-failed:">> \o x.text, 0, <<>>)

\* message.includes('CONFLICT:')
IncludesConflict(message) == \E i \in 1..Len(message) : message[i] = "CONFLICT:"

(***************************************************************************)
(* GoogleSheetsData.js: makeApiRequest up to its first suspension          *)
(***************************************************************************)
NewCall(kind, col, row, value) ==
    [IdleCall EXCEPT !.pc = "start", !.kind = kind, !.col = col, !.row = row,
                     !.value = value]

\* fetch(url, requestOptions)
SendRequest(s, p, pc) == [s EXCEPT !.gw[p].reqs = @ + 1, !.gw[p].pc = pc]

makeApiRequest(s, p, call) ==
    LET s1 == [s EXCEPT !.gw[p] = call] IN
    IF isTokenValid(s1)
    THEN SendRequest(s1, p, "req1")
    ELSE [s1 EXCEPT !.gw[p].pc = "ensurex"]

\* the cell of the spreadsheet at column code col (65 is "A") and row number
CellOf(sh, col, row) ==
    IF row >= 1 /\ row <= Len(sh) /\ col - 64 >= 1 /\ col - 64 <= Len(sh[row])
    THEN sh[row][col - 64]
    ELSE <<>>

SetCell(sh, col, row, v) ==
    IF row >= 1 /\ row <= Len(sh) /\ col - 64 >= 1 /\ col - 64 <= Len(sh[row])
    THEN [sh EXCEPT ![row][col - 64] = v]
    ELSE sh

(***************************************************************************)
(* useGoogleSheets.js                                                      *)
(***************************************************************************)
getSheetCellAddress(rowIndex, colIndex) ==
    [col |-> getColAddress(colIndex), row |-> getRowAddress(rowIndex)]

\* handleError that also drops the loaded data
handleError_clears(s, err, context) ==
    [s EXCEPT !.error = <<context>> \o err.message, !.data = NoData]

handleError(s, err, context) == [s EXCEPT !.error = <<context>> \o err.message]

handleSuccess(s, fetchedData) ==
    [s EXCEPT !.data = fetchedData, !.error = <<>>, !.lastFetch = s.now]

\* the object fetchSheetData builds from the fetched values; its dataRows
\* array is stored at reference ref
fetchSheetData(values, ref, t) ==
    IF Len(values) = 0
    THEN [isNull |-> FALSE, rows |-> <<>>, headers |-> <<>>, dataRows |-> ref,
          hasData |-> FALSE, lastUpdated |-> 0]
    ELSE [isNull |-> FALSE, rows |-> values, headers |-> getHeader(values),
          dataRows |-> ref, hasData |-> TRUE, lastUpdated |-> t]

\* updateCell after await fetchData(...) in its conflict branch: it throws
\* the conflict message and its finally runs
updateCellAfterResync(s, u) ==
    [s EXCEPT !.cellUpdateLoading = FALSE,
              !.upd[u].pc = "done", !.upd[u].outcome = "conflict"]

\* the finally of fetchData, and the caller that awaited it
fetchDataFinally(s, f, outcome) ==
    LET s1 == [s EXCEPT !.loading = IF s.load[f].showLoading THEN FALSE ELSE @,
                        !.abortControllerRef = 0,
                        !.load[f].pc = "done", !.load[f].outcome = outcome]
    IN  IF s.load[f].parent # 0
        THEN updateCellAfterResync(s1, s.load[f].parent)
        ELSE s1

\* abortControllerRef.current?.signal.aborted
IsAborted(s) == s.abortControllerRef # 0 /\ s.abortControllerRef \in s.aborted

\* fetchData after await authenticate() returned true
fetchDataAfterAuth(s, f) ==
    IF IsAborted(s)
    THEN fetchDataFinally(s, f, "aborted")
    ELSE makeApiRequest([s EXCEPT !.load[f].pc = "fetch"], f,
                        NewCall("range", 0, 0, <<>>))

\* fetchData from its call to its first suspension
fetchData(s, f, showLoading, parent) ==
    LET s1 == [s EXCEPT
                 !.aborted = IF s.abortControllerRef # 0
                             THEN @ \cup {s.abortControllerRef} ELSE @,
                 !.abortControllerRef = f,
                 !.loading = IF showLoading THEN TRUE ELSE @,
                 !.nextLoad = @ + 1,
                 !.load = [g \in Loads |->
                             IF g = f
                             THEN [IdleLoad EXCEPT !.pc = "auth",
                                                   !.showLoading = showLoading,
                                                   !.parent = parent]
                             ELSE IF s.load[g].pc \notin {"idle", "done"}
                             THEN [s.load[g] EXCEPT !.superseded = TRUE]
                             ELSE s.load[g]]]
    IN  IF isTokenValid(s1)
        THEN fetchDataAfterAuth([s1 EXCEPT !.isAuthenticatedRef = TRUE], f)
        ELSE s1

\* fetchData when the hook's authenticate() has settled with x
fetchDataAuthSettled(s, f, x) ==
    LET s1 == authenticate(s, x) IN
    IF x.kind = "ok"
    THEN fetchDataAfterAuth([s1 EXCEPT !.isAuthenticatedRef = TRUE], f)
    ELSE fetchDataFinally(
             handleError([s1 EXCEPT !.isAuthenticatedRef = FALSE],
                         AuthError(x), "auth-failed:"),
             f, "autherror")

\* fetchData when fetchSheetData has settled with res
fetchDataFetched(s, f, res) ==
    IF ~res.ok
    THEN fetchDataFinally(handleError(s, res.err, "fetch-failed:"), f, "error")
    ELSE LET values == res.val
             result == fetchSheetData(values, f, s.now)
             s1 == [s EXCEPT !.load[f].values = values, !.load[f].fetched = TRUE]
         IN  IF getDataRowsThrows(values, Len(getHeader(values)))
             THEN fetchDataFinally(
                      handleError(s1, Err(<<"TypeError">>, 0, <<>>), "fetch-failed:"),
                      f, "error")
             ELSE IF IsAborted(s1)
             THEN fetchDataFinally(s1, f, "aborted")
             ELSE fetchDataFinally(
                      handleSuccess(
                          [s1 EXCEPT !.heap[f] = getDataRows(values, Len(result.headers)),
                                     !.load[f].applied = TRUE],
                          result),
                      f, "ok")

\* the validation with the column bound off by one
updateCellArgsOk_offbyone(d, dataRows, rowIndex, colIndex) ==
    /\ ~d.isNull
    /\ ~(rowIndex < 0 \/ rowIndex >= Len(dataRows))
    /\ ~(colIndex < 0 \/ colIndex > Len(d.headers))

\* updateCell lines 224-234
updateCellArgsOk(d, dataRows, rowIndex, colIndex) ==
    /\ ~d.isNull
    /\ ~(rowIndex < 0 \/ rowIndex >= Len(dataRows))
    /\ ~(colIndex < 0 \/ colIndex >= Len(d.headers))

\* targetRow.attendance?.[colIndex]
MarkAt(dataRows, rowIndex, colIndex) ==
    IF rowIndex + 1 \in 1..Len(dataRows)
       /\ colIndex + 1 \in 1..Len(dataRows[rowIndex + 1].attendance)
    THEN dataRows[rowIndex + 1].attendance[colIndex + 1]
    ELSE NoMark

\* the expected value taken from the status alone
ExpectedValue_status(mark) == mark.status

\* lines 237-239
ExpectedValue(mark) ==
    IF mark.status = ATTENDANCE_STATUS.OTHER_ THEN mark.desc ELSE mark.status

\* lines 261-270
newAttendanceItem(newValue) ==
    IF IsFalsy(newValue) \/ Trim(newValue) = <<>> \/ Trim(newValue) = <<"-">>
    THEN [status |-> <<"N", "o", "n", "e">>, desc |-> <<>>]
    ELSE IF Trim(newValue) = <<"X">> THEN [status |-> <<"X">>, desc |-> <<>>]
    ELSE IF Trim(newValue) = <<"O">> THEN [status |-> <<"O">>, desc |-> <<>>]
    ELSE [status |-> <<"E", "t", "c">>, desc |-> Trim(newValue)]

\* array[i] = v on a JavaScript array, 0-based
SetAt(arr, i, v) ==
    [k \in 1..(IF i + 1 > Len(arr) THEN i + 1 ELSE Len(arr)) |->
        IF k = i + 1 THEN v ELSE IF k <= Len(arr) THEN arr[k] ELSE NoMark]

\* the optimistic update that writes the mark one column too far
optimisticUpdate_shifted(s, u) ==
    LET d == s.upd[u].data
        r == s.upd[u].rowIndex
        c == s.upd[u].colIndex
        updatedRow == [s.heap[d.dataRows][r + 1] EXCEPT
                         !.attendance = SetAt(@, c + 1, newAttendanceItem(s.upd[u].newValue))]
    IN  [s EXCEPT !.heap[d.dataRows][r + 1] = updatedRow,
                  !.data = d,
                  !.upd[u].optimistic = TRUE]

\* lines 255-277: the copies share the dataRows array of the captured data
optimisticUpdate(s, u) ==
    LET d == s.upd[u].data
        r == s.upd[u].rowIndex
        c == s.upd[u].colIndex
        updatedRow == [s.heap[d.dataRows][r + 1] EXCEPT
                         !.attendance = SetAt(@, c, newAttendanceItem(s.upd[u].newValue))]
    IN  [s EXCEPT !.heap[d.dataRows][r + 1] = updatedRow,
                  !.data = d,
                  !.upd[u].optimistic = TRUE]

\* the catch whose conflict branch reloads with the loading indicator
updateCellCatch_loading(s, u, err) ==
    IF IncludesConflict(err.message)
    THEN fetchData([s EXCEPT !.upd[u].pc = "resync",
                             !.upd[u].reported = "conflict",
                             !.upd[u].errValue = err.value,
                             !.upd[u].resync = s.nextLoad],
                   s.nextLoad, TRUE, u)
    ELSE [s EXCEPT !.data = s.upd[u].data,
                   !.upd[u].reported = "error",
                   !.cellUpdateLoading = FALSE,
                   !.upd[u].pc = "done", !.upd[u].outcome = "error"]

\* the catch and finally of updateCell
updateCellCatch(s, u, err) ==
    IF IncludesConflict(err.message)
    THEN fetchData([s EXCEPT !.upd[u].pc = "resync",
                             !.upd[u].reported = "conflict",
                             !.upd[u].errValue = err.value,
                             !.upd[u].resync = s.nextLoad],
                   s.nextLoad, FALSE, u)
    ELSE [s EXCEPT !.data = s.upd[u].data,
                   !.upd[u].reported = "error",
                   !.cellUpdateLoading = FALSE,
                   !.upd[u].pc = "done", !.upd[u].outcome = "error"]

\* the catch of updateCellWithCAS
updateCellWithCASCatch(s, u, err) ==
    IF IncludesConflict(err.message)
    THEN updateCellCatch(s, u, err)
    ELSE updateCellCatch(s, u, Err(<<"CAS-update-failed:">> \o err.message,
                                   err.status, err.value))

\* updateCell after await authenticate() returned true
updateCellAfterAuth(s, u) ==
    LET addr == getSheetCellAddress(s.upd[u].rowIndex, s.upd[u].colIndex)
        s1 == optimisticUpdate(s, u)
    IN  makeApiRequest([s1 EXCEPT !.upd[u].pc = "read"], u,
                       NewCall("cell", addr.col, addr.row, <<>>))

\* updateCell from its call to its first suspension
updateCell(s, u, rowIndex, colIndex, newValue) ==
    LET targetMark == MarkAt(DataRowsOf(s.data, s.heap), rowIndex, colIndex)
        s1 == [s EXCEPT !.cellUpdateLoading = TRUE,
                        !.upd[u] = [IdleUpd EXCEPT
                                      !.pc = "auth",
                                      !.rowIndex = rowIndex,
                                      !.colIndex = colIndex,
                                      !.newValue = newValue,
                                      !.currentValue = ExpectedValue(targetMark),
                                      !.data = s.data,
                                      !.preMark = targetMark]]
    IN  IF isTokenValid(s1)
        THEN updateCellAfterAuth([s1 EXCEPT !.isAuthenticatedRef = TRUE], u)
        ELSE s1

\* updateCell when the hook's authenticate() has settled with x
updateCellAuthSettled(s, u, x) ==
    LET s1 == authenticate(s, x) IN
    IF x.kind = "ok"
    THEN updateCellAfterAuth([s1 EXCEPT !.isAuthenticatedRef = TRUE], u)
    ELSE updateCellCatch(
             handleError([s1 EXCEPT !.isAuthenticatedRef = FALSE],
                         AuthError(x), "auth-failed:"),
             u, Err(<<"auth-required">>, 0, <<>>))

\* updateCellWithCAS that writes without comparing what it read
updateCellWithCASRead_nogate(s, u, res) ==
    IF ~res.ok
    THEN updateCellWithCASCatch(s, u, res.err)
    ELSE makeApiRequest(
             [s EXCEPT !.upd[u].readOk = TRUE, !.upd[u].readValue = res.val,
                       !.upd[u].pc = "write", !.upd[u].writeCalled = TRUE],
             u, NewCall("write",
                        getSheetCellAddress(s.upd[u].rowIndex, s.upd[u].colIndex).col,
                        getSheetCellAddress(s.upd[u].rowIndex, s.upd[u].colIndex).row,
                        s.upd[u].newValue))

\* updateCellWithCAS when getCurrentCellValue has settled with res
updateCellWithCASRead(s, u, res) ==
    IF ~res.ok
    THEN updateCellWithCASCatch(s, u, res.err)
    ELSE LET currentValue == res.val
             normalizedCurrent == Trim(IF IsFalsy(currentValue) THEN <<>> ELSE currentValue)
             normalizedExpected == Trim(IF IsFalsy(s.upd[u].currentValue)
                                        THEN <<>> ELSE s.upd[u].currentValue)
             s1 == [s EXCEPT !.upd[u].readOk = TRUE, !.upd[u].readValue = currentValue]
         IN  IF ~isEqualStatus(normalizedCurrent, normalizedExpected)
             THEN updateCellWithCASCatch(
                      s1, u, Err(<<"CONFLICT:", "current-value">>, 0, normalizedCurrent))
             ELSE makeApiRequest(
                      [s1 EXCEPT !.upd[u].pc = "write", !.upd[u].writeCalled = TRUE],
                      u, NewCall("write",
                        getSheetCellAddress(s.upd[u].rowIndex, s.upd[u].colIndex).col,
                        getSheetCellAddress(s.upd[u].rowIndex, s.upd[u].colIndex).row,
                        s.upd[u].newValue))

\* updateCellWithCAS when updateCell of the gateway has settled with res
updateCellWithCASWritten(s, u, res) ==
    IF ~res.ok
    THEN updateCellWithCASCatch(s, u, res.err)
    ELSE [s EXCEPT !.cellUpdateLoading = FALSE,
                   !.upd[u].pc = "done", !.upd[u].outcome = "ok"]

(***************************************************************************)
(* GoogleSheetsData.js: a makeApiRequest call settles                      *)
(***************************************************************************)
\* the catch of getSheetData, getCurrentCellValue and updateCell
Wrap(kind, err) ==
    Err(<<CASE kind = "range" -> "sheet-read-failed:"
            [] kind = "cell" -> "cell-read-failed:"
            [] OTHER -> "cell-update-failed:">> \o err.message,
        err.status, err.value)

Settled(s, p, ok, val, err) ==
    LET call == s.gw[p]
        res == [ok |-> ok, val |-> val, err |-> Wrap(call.kind, err)]
        s1 == [s EXCEPT !.gw[p] = IdleCall,
                        !.lastCall = [proc |-> p, kind |-> call.kind,
                                      reqs |-> call.reqs, exch |-> call.exch,
                                      reauth |-> call.reauth, resend |-> call.resend,
                                      first |-> call.first, second |-> call.second,
                                      ok |-> ok, status |-> err.status,
                                      tok0 |-> call.tok0, exp0 |-> call.exp0]]
    IN  CASE call.kind = "range" -> fetchDataFetched(s1, p, res)
          [] call.kind = "cell" -> updateCellWithCASRead(s1, p, res)
          [] OTHER -> updateCellWithCASWritten(s1, p, res)

\* an I/O completion of call p arrives: the cache as it is then
Arrived(s, p) ==
    [s EXCEPT !.gw[p].tok0 = s.accessToken, !.gw[p].exp0 = s.tokenExpiryTime]

\* getAuthHeaders() and fetch() after a token exchange of this call
SendWithHeaders(s, p, pc) ==
    IF isTokenValid(s)
    THEN SendRequest(s, p, pc)
    ELSE Settled(s, p, FALSE, <<>>, Err(<<"no-valid-token">>, 0, <<>>))

\* await this.auth.ensureValidToken() settles with x
ensureValidTokenSettled(s, p, x) ==
    LET s1 == [authenticate(Arrived(s, p), x) EXCEPT !.gw[p].exch = @ + 1] IN
    IF x.kind = "ok"
    THEN SendWithHeaders(s1, p, "req1")
    ELSE Settled(s1, p, FALSE, <<>>, AuthError(x))

\* the server's answer to a request, and what the 2xx answer carries
ResponseValue(s, p) ==
    CASE s.gw[p].kind = "range" -> s.sheet
      [] s.gw[p].kind = "cell" -> CellOf(s.sheet, s.gw[p].col, s.gw[p].row)
      [] OTHER -> s.gw[p].value

ServerApplies(s, p) ==
    IF s.gw[p].kind = "write"
    THEN [s EXCEPT !.sheet = SetCell(@, s.gw[p].col, s.gw[p].row, s.gw[p].value),
                   !.upd[p].wrote = TRUE]
    ELSE s

\* the first response handled as if every failure were a 401
firstResponse_anyerror(s, p, status, text) ==
    LET s1 == [Arrived(s, p) EXCEPT
                 !.gw[p].first = status,
                 !.events = IF status # HTTP_OK THEN @ + 1 ELSE @]
    IN  IF status = HTTP_OK
        THEN Settled(ServerApplies(s1, p), p, TRUE, ResponseValue(s1, p),
                     Err(<<>>, 0, <<>>))
        ELSE [clearAuthentication(s1) EXCEPT !.gw[p].pc = "reauthx"]

\* lines 179-213 for the first response
firstResponse(s, p, status, text) ==
    LET s1 == [Arrived(s, p) EXCEPT
                 !.gw[p].first = status,
                 !.events = IF status # HTTP_OK THEN @ + 1 ELSE @]
    IN  IF status = HTTP_OK
        THEN Settled(ServerApplies(s1, p), p, TRUE, ResponseValue(s1, p),
                     Err(<<>>, 0, <<>>))
        ELSE IF status = HTTP_UNAUTHORIZED
        THEN [clearAuthentication(s1) EXCEPT !.gw[p].pc = "reauthx"]
        ELSE Settled(s1, p, FALSE, <<>>,
                     Err(<<"API-request-failed:">> \o text, status, <<>>))

\* await this.auth.authenticate() after a 401 settles with x
reauthSettled(s, p, x) ==
    LET s1 == [authenticate(Arrived(s, p), x) EXCEPT
                 !.gw[p].reauth = @ + 1,
                 !.gw[p].resend = IF x.kind # "ok" THEN "authfail"
                                  ELSE IF x.expires_in <= SAFETY_MARGIN THEN "stale"
                                  ELSE "ok"]
    IN  IF x.kind = "ok"
        THEN SendWithHeaders(s1, p, "req2")
        ELSE Settled(s1, p, FALSE, <<>>, AuthError(x))

\* the retry handled like the first response: a 401 re-authenticates again
retryResponse_again(s, p, status, text) ==
    LET s1 == [Arrived(s, p) EXCEPT
                 !.gw[p].second = status,
                 !.events = IF status # HTTP_OK THEN @ + 1 ELSE @]
    IN
    IF status = HTTP_OK
    THEN Settled(ServerApplies(s1, p), p, TRUE, ResponseValue(s1, p),
                 Err(<<>>, 0, <<>>))
    ELSE IF status = HTTP_UNAUTHORIZED
    THEN [clearAuthentication(s1) EXCEPT !.gw[p].pc = "reauthx"]
    ELSE Settled(s1, p, FALSE, <<>>,
                 Err(<<"API-retry-failed:">> \o text, status, <<>>))

\* lines 200-207 for the response to the re-sent request
retryResponse(s, p, status, text) ==
    LET s1 == [Arrived(s, p) EXCEPT
                 !.gw[p].second = status,
                 !.events = IF status # HTTP_OK THEN @ + 1 ELSE @]
    IN
    IF status = HTTP_OK
    THEN Settled(ServerApplies(s1, p), p, TRUE, ResponseValue(s1, p),
                 Err(<<>>, 0, <<>>))
    ELSE Settled(s1, p, FALSE, <<>>,
                 Err(<<"API-retry-failed:">> \o text, status, <<>>))

(***************************************************************************)
(* Actions.                                                                *)
(***************************************************************************)
\* refetch(): fetchData({showLoading: true}); also the fetch at mount
Refetch ==
    /\ events < MaxEvents
    /\ Becomes(fetchData([S EXCEPT !.events = @ + 1], nextLoad, TRUE, 0))

\* refreshData(): fetchData({showLoading: false}); also the interval timer
RefreshData ==
    /\ events < MaxEvents
    /\ Becomes(fetchData([S EXCEPT !.events = @ + 1], nextLoad, FALSE, 0))

\* updateCell(rowIndex, colIndex, newValue) passes its validation
UpdateCell(rowIndex, colIndex, newValue) ==
    /\ events < MaxEvents
    /\ updateCellArgsOk(data, DataRowsOf(data, heap), rowIndex, colIndex)
    /\ Becomes(updateCell([S EXCEPT !.events = @ + 1, !.nextUpd = @ + 1,
                                    !.lastArgs = [called |-> TRUE,
                                                  threw |-> FALSE,
                                                  rowIndex |-> rowIndex,
                                                  colIndex |-> colIndex]],
                          nextUpd, rowIndex, colIndex, newValue))

\* updateCell(rowIndex, colIndex, newValue) throws at lines 224-234
UpdateCellRejected(rowIndex, colIndex, newValue) ==
    /\ events < MaxEvents
    /\ ~updateCellArgsOk(data, DataRowsOf(data, heap), rowIndex, colIndex)
    /\ Becomes([S EXCEPT !.events = @ + 1,
                         !.lastArgs = [called |-> TRUE, threw |-> TRUE,
                                       rowIndex |-> rowIndex,
                                       colIndex |-> colIndex]])

MayFail(x) == IsFault(x) => events < MaxEvents

\* the hook's authenticate() of a fetchData or updateCell call settles
HookAuthSettled(p, x) ==
    /\ MayFail(x)
    /\ \/ /\ p \in Loads /\ load[p].pc = "auth"
          /\ Becomes(fetchDataAuthSettled(S, p, x))
       \/ /\ p \in Upds /\ upd[p].pc = "auth"
          /\ Becomes(updateCellAuthSettled(S, p, x))

EnsureValidTokenSettled(p, x) ==
    /\ MayFail(x)
    /\ gw[p].pc = "ensurex"
    /\ Becomes(ensureValidTokenSettled(S, p, x))

FirstResponse(p, status, text) ==
    /\ gw[p].pc = "req1"
    /\ status # HTTP_OK => events < MaxEvents
    /\ status = HTTP_OK => text = <<>>
    /\ status # HTTP_OK => text # <<>>
    /\ Becomes(firstResponse(S, p, status, text))

ReauthSettled(p, x) ==
    /\ MayFail(x)
    /\ gw[p].pc = "reauthx"
    /\ Becomes(reauthSettled(S, p, x))

RetryResponse(p, status, text) ==
    /\ gw[p].pc = "req2"
    /\ status # HTTP_OK => events < MaxEvents
    /\ status = HTTP_OK => text = <<>>
    /\ status # HTTP_OK => text # <<>>
    /\ Becomes(retryResponse(S, p, status, text))

\* another client types a value into an attendance cell
OtherClientWrite(row, col, v) ==
    /\ events < MaxEvents
    /\ CellOf(sheet, col, row) # v
    /\ Becomes([S EXCEPT !.sheet = SetCell(@, col, row, v),
                         !.events = @ + 1])

Tick ==
    /\ events < MaxEvents
    /\ Becomes([S EXCEPT !.now = @ + 1, !.events = @ + 1])

Next ==
    \/ Refetch
    \/ RefreshData
    \/ \E r \in RowInputs, c \in ColInputs, v \in NewValues :
          UpdateCell(r, c, v)
    \/ \E r \in RowInputs, c \in ColInputs, v \in NewValues :
          UpdateCellRejected(r, c, v)
    \/ \E p \in Procs, x \in ExchangeOutcomes : HookAuthSettled(p, x)
    \/ \E p \in Procs, x \in ExchangeOutcomes : EnsureValidTokenSettled(p, x)
    \/ \E p \in Procs, st \in Statuses, t \in ServerTexts \cup {<<>>} :
          FirstResponse(p, st, t)
    \/ \E p \in Procs, x \in ExchangeOutcomes : ReauthSettled(p, x)
    \/ \E p \in Procs, st \in Statuses, t \in ServerTexts \cup {<<>>} :
          RetryResponse(p, st, t)
    \/ \E r \in 3..4, c \in 67..68, v \in RemoteValues : OtherClientWrite(r, c, v)
    \/ Tick

Spec == Init /\ [][Next]_vars

(***************************************************************************)
(* GoogleSheetsAuth used directly: one caller of ensureValidToken() and    *)
(* clearAuthentication(), the token endpoint and the clock.                *)
(***************************************************************************)
MaxAuthEvents == 4

\* declared lifetimes (expires_in) around the safety margin
AuthLifetimes == {299, 300, 301, 302}

AuthOutcomes ==
    [kind : {"ok"}, expires_in : AuthLifetimes, text : {<<>>}]
        \cup [kind : {"exfail"}, expires_in : {0}, text : {<<"Internal", "error">>}]

getToken(s) == IF isTokenValid(s) THEN s.accessToken ELSE 0

getAuthHeadersThrows(s) == getToken(s) = 0

\* one completed ensureValidToken() call, for the log of the caller
Returned(s, call, exchanged, threw) ==
    [token |-> IF threw THEN 0 ELSE s.accessToken, threw |-> threw,
     exchanged |-> exchanged, cache0 |-> call.cache0, valid0 |-> call.valid0,
     cleared0 |-> call.cleared0, exchanges |-> s.exchanges]

\* ensureValidToken() that authenticates on every call
ensureValidToken_always(s) ==
    [s EXCEPT !.probe.op = "ensure", !.probe.pc = "exchange",
              !.probe.call = [cache0 |-> s.accessToken, valid0 |-> isTokenValid(s),
                              cleared0 |-> s.probe.op = "clear"]]

\* ensureValidToken() up to its return or to the token exchange it awaits
ensureValidToken(s) ==
    LET call == [cache0 |-> s.accessToken, valid0 |-> isTokenValid(s),
                 cleared0 |-> s.probe.op = "clear"]
    IN  IF isTokenValid(s)
        THEN [s EXCEPT !.probe.op = "ensure",
                       !.probe.log = Append(@, Returned(s, call, 0, FALSE))]
        ELSE [s EXCEPT !.probe.op = "ensure", !.probe.pc = "exchange",
                       !.probe.call = call]

\* await this.authenticate(credentials) of ensureValidToken() settles with x
ensureValidTokenReturns(s, x) ==
    LET s1 == [authenticate(s, x) EXCEPT !.events = s.events]
        s2 == [s1 EXCEPT !.probe.pc = "idle", !.probe.op = "exchange",
                         !.probe.t0 = IF x.kind = "ok" THEN s.now ELSE @,
                         !.probe.lifetime = IF x.kind = "ok" THEN x.expires_in ELSE @]
    IN  [s2 EXCEPT !.probe.log =
                      Append(@, Returned(s1, s.probe.call, 1, x.kind # "ok"))]

AuthEnsure ==
    /\ probe.pc = "idle"
    /\ probe.n < MaxAuthEvents
    /\ Becomes(ensureValidToken([S EXCEPT !.probe.n = @ + 1]))

AuthExchangeSettled(x) ==
    /\ probe.pc = "exchange"
    /\ Becomes(ensureValidTokenReturns(S, x))

AuthClear ==
    /\ probe.n < MaxAuthEvents
    /\ Becomes([clearAuthentication(S) EXCEPT !.probe.n = @ + 1,
                                              !.probe.op = "clear"])

AuthTick ==
    /\ probe.n < MaxAuthEvents
    /\ Becomes([S EXCEPT !.now = @ + 1, !.probe.n = @ + 1,
                         !.probe.op = IF @ = "clear" THEN @ ELSE "tick"])

NextAuth ==
    \/ AuthEnsure
    \/ \E x \in AuthOutcomes : AuthExchangeSettled(x)
    \/ AuthClear
    \/ AuthTick

SpecAuth == Init /\ [][NextAuth]_vars

(***************************************************************************)
(* The session after its first load: fetchData at mount has succeeded with *)
(* a token of lifetime 301; since then the clock may have passed the       *)
(* expiry of the token and another client may have changed a cell.         *)
(***************************************************************************)
Loaded ==
    /\ probe = NoProbe
    /\ now \in 1..2
    /\ sheet \in {InitialSheet, SetCell(InitialSheet, 67, 3, <<"X">>)}
    /\ accessToken = 1
    /\ tokenExpiryTime = 2
    /\ data = fetchSheetData(InitialSheet, 1, 1)
    /\ heap = [f \in Loads |->
                 IF f = 1
                 THEN getDataRows(InitialSheet, Len(getHeader(InitialSheet)))
                 ELSE <<>>]
    /\ loading = FALSE
    /\ error = <<>>
    /\ lastFetch = 1
    /\ cellUpdateLoading = FALSE
    /\ isAuthenticatedRef = TRUE
    /\ abortControllerRef = 0
    /\ aborted = {}
    /\ load = [f \in Loads |->
                 IF f = 1
                 THEN [IdleLoad EXCEPT !.pc = "done", !.showLoading = TRUE,
                                       !.applied = TRUE, !.outcome = "ok",
                                       !.values = InitialSheet, !.fetched = TRUE]
                 ELSE IdleLoad]
    /\ upd = [u \in Upds |-> IdleUpd]
    /\ gw = [p \in Procs |-> IdleCall]
    /\ nextLoad = 2
    /\ nextUpd = 101
    /\ exchanges = 1
    /\ lastCall = NoCall
    /\ lastArgs = NoArgs

InitLoaded == Loaded /\ events = 0

SpecLoaded == InitLoaded /\ [][Next]_vars

(***************************************************************************)
(* The pure functions applied to inputs: a caller holds an argument and    *)
(* applies the function it is for.                                         *)
(***************************************************************************)
MaxRowIndex == 8
MaxColIndex == 24

\* String.fromCharCode for the codes from 65 ("A") on
Chars ==
    <<"A", "B", "C", "D", "E", "F", "G", "H", "I", "J", "K", "L", "M", "N", "O",
      "P", "Q", "R", "S", "T", "U", "V", "W", "X", "Y", "Z", "[", "<backslash>", "]",
      "^", "_", "<backtick>">>

FromCharCode(n) == IF n - 64 \in 1..Len(Chars) THEN Chars[n - 64] ELSE "?"

\* charCodeAt(i) of a character matched by [A-Z]
CharCodeAt(c) == CHOOSE n \in 65..90 : Chars[n - 64] = c

IsUpperLetter(c) == \E n \in 65..90 : Chars[n - 64] = c

DigitChar(d) ==
    CASE d = 0 -> "0" [] d = 1 -> "1" [] d = 2 -> "2" [] d = 3 -> "3"
      [] d = 4 -> "4" [] d = 5 -> "5" [] d = 6 -> "6" [] d = 7 -> "7"
      [] d = 8 -> "8" [] OTHER -> "9"

\* a non-negative number in a template literal
RECURSIVE ToDecimal(_)
ToDecimal(n) ==
    IF n < 10 THEN <<DigitChar(n)>>
    ELSE Append(ToDecimal(n \div 10), DigitChar(n % 10))

\* `${col}${row}` of getSheetCellAddress
FormatAddress(addr) == <<FromCharCode(addr.col)>> \o ToDecimal(addr.row)

\* the length of the longest prefix of s that [A-Z]+ can match
RECURSIVE LettersPrefix(_)
LettersPrefix(s) ==
    IF s # <<>> /\ IsUpperLetter(Head(s)) THEN 1 + LettersPrefix(Tail(s)) ELSE 0

\* cellAddress.match(/^([A-Z]+)(\d+)$/) is null
parseCellAddressThrows(cellAddress) ==
    LET n == LettersPrefix(cellAddress) IN
    \/ n = 0
    \/ n = Len(cellAddress)
    \/ \E i \in (n + 1)..Len(cellAddress) : ~IsDigit(cellAddress[i])

RECURSIVE ColumnNumber(_, _)
ColumnNumber(colLetters, colIndex) ==
    IF colLetters = <<>> THEN colIndex
    ELSE ColumnNumber(Tail(colLetters),
                      colIndex * 26 + (CharCodeAt(Head(colLetters)) - 65 + 1))

parseCellAddress(cellAddress) ==
    LET n == LettersPrefix(cellAddress)
        colLetters == SubSeq(cellAddress, 1, n)
        rowNumber == ParseInt(SubSeq(cellAddress, n + 1, Len(cellAddress)))
    IN  [rowIndex |-> rowNumber - 3,
         colIndex |-> (ColumnNumber(colLetters, 0) - 1) - 2]

\* cell values given to parseAttendanceCell
CellInputs ==
    {Undefined, <<>>, <<" ">>, <<"-">>, <<" ", "-", " ">>, <<"X">>, <<" ", "X">>,
     <<"O">>, <<"O", " ">>, <<"x">>, <<"<mieum>">>, <<"<i>">>, <<"<digeut>">>,
     <<"l", "a", "t", "e">>, <<" ", "s", "i", "c", "k", " ">>}

\* values given to isEqualStatus
StatusInputs ==
    {Undefined, <<>>, <<" ">>, <<"-">>, <<"N", "o", "n", "e">>,
     <<"n", "o", "n", "e">>, <<"N", "/", "A">>, <<"<mi>", "<gi>", "<rok>">>,
     <<"O">>, <<"o">>, <<" ", "O">>, <<"X">>, <<"E", "t", "c">>}

\* a grid of three lecture columns C, D, E, each with a label and a date or
\* with one of them empty, and two students, the second with a short row
HeaderCell(kind, text) == IF kind = "both" \/ kind = text THEN <<text>> ELSE <<>>

\* date texts: three numeric components, and texts that are not
DateTexts ==
    {<<"1", ".", "2", ".", "3">>, <<"2", "0", "2", "5", ".", " ", "9", ".", " ", "1", "0">>,
     <<"9", "/", "1", "0">>, <<"1", ".", "2">>, <<"1", ".", "2", ".", "3", ".", "4">>,
     <<" ">>, <<>>}

\* names in column A: present, empty, whitespace only
NameTexts == {<<"P", "a", "k">>, <<" ", "P", "a", "k", " ">>, <<>>, <<" ">>}

\* grids with titles in columns A and B, with dates that do not parse, with
\* header rows of different lengths, with rows that have no name, and grids
\* of fewer than three rows or fewer than three columns
EdgeGrids ==
    {<< <<<<"n", "a", "m", "e">>, <<"c", "l", "s">>, <<"a">>, <<"b">>>>,
        <<<<"n", "a", "m", "e">>, <<"c", "l", "s">>, d1, d2>>,
        <<n1, <<"A">>, <<"O">>, <<"X">>>>,
        <<<<"L", "e", "e">>, <<"B">>, <<"X">>>>,
        <<n2, <<"A">>, <<>>, <<"O">>>> >>
       : d1 \in DateTexts, d2 \in {<<"1", ".", "2", ".", "3">>, <<"x">>},
         n1 \in NameTexts, n2 \in NameTexts}
    \cup {<<>>,
          << <<<<>>, <<>>, <<"a">>>> >>,
          << <<<<>>, <<>>, <<"a">>>>, <<<<>>, <<>>, <<"1", ".", "2", ".", "3">>>> >>,
          << <<<<>>, <<>>, <<"a">>, <<"b">>>>, <<<<>>, <<>>, <<"1", ".", "2", ".", "3">>>>,
             <<<<"K", "i", "m">>, <<"A">>, <<"O">>, <<"X">>>> >>,
          << <<<<>>, <<>>, <<"a">>>>,
             <<<<>>, <<>>, <<"1", ".", "2", ".", "3">>, <<"1", ".", "2", ".", "4">>>>,
             <<<<"K", "i", "m">>, <<"A">>, <<"O">>, <<"X">>>> >>,
          << <<<<"n">>>>, <<<<"d">>>>, <<<<"K", "i", "m">>>> >>,
          << <<>>, <<>>, <<<<"K", "i", "m">>, <<"A">>>>, <<>>, <<<<"L", "e", "e">>>> >>}

GridInputs ==
    EdgeGrids \cup
    {<< <<<<>>, <<>>, HeaderCell(k[1], "a"), HeaderCell(k[2], "b"),
          HeaderCell(k[3], "c")>>,
        <<<<>>, <<>>, HeaderCell(k[1], "1"), HeaderCell(k[2], "2"),
          HeaderCell(k[3], "3")>>,
        <<<<"K", "i", "m">>, <<"A">>, <<"O">>, <<"X">>, <<"l", "a", "t", "e">>>>,
        <<<<"L", "e", "e">>, <<"B">>, <<"X">>, <<"O">>>> >>
       : k \in [1..3 -> {"both", "a", "b", "c", "1", "2", "3"}]}

\* contents of an attendance cell, and values given to updateCell
ValueInputs ==
    CellInputs \cup
    {<<"N", "o", "n", "e">>, <<"n", "/", "a">>, <<"E", "t", "c">>, <<"o">>,
     <<" ", "l", "a", "t", "e">>, <<"O", "X">>, <<"<mi>", "<gi>", "<rok>">>}

FnInputs ==
    [fn : {"cellValue"}, arg : ValueInputs, done : {FALSE}, threw : {FALSE},
     out : {<<>>}]
    \cup
    [fn : {"parseAttendanceCell"}, arg : CellInputs, done : {FALSE},
     threw : {FALSE}, out : {<<>>}]
    \cup [fn : {"isEqualStatus"},
          arg : StatusInputs \X StatusInputs \X StatusInputs, done : {FALSE},
          threw : {FALSE}, out : {<<>>}]
    \cup [fn : {"cellAddress"}, arg : (0..MaxRowIndex) \X (0..MaxColIndex),
          done : {FALSE}, threw : {FALSE}, out : {<<>>}]
    \cup [fn : {"parse"}, arg : GridInputs, done : {FALSE}, threw : {FALSE},
          out : {<<>>}]

InitFn == Constructed /\ probe \in FnInputs

ApplyParseAttendanceCell ==
    /\ probe.fn = "parseAttendanceCell" /\ ~probe.done
    /\ Becomes([S EXCEPT !.probe.done = TRUE,
                         !.probe.threw = ParseAttendanceCellThrows(probe.arg),
                         !.probe.out = IF ParseAttendanceCellThrows(probe.arg)
                                       THEN <<>>
                                       ELSE ParseAttendanceCell(probe.arg)])

\* isEqualStatus on each pair of the three values
ApplyIsEqualStatus ==
    /\ probe.fn = "isEqualStatus" /\ ~probe.done
    /\ Becomes([S EXCEPT !.probe.done = TRUE,
                         !.probe.out = [i \in 1..3 |-> [j \in 1..3 |->
                                          isEqualStatus(probe.arg[i], probe.arg[j])]]])

\* the text of getSheetCellAddress(rowIndex, colIndex) for every pair of
\* indexes within the bounds
AddressText ==
    [r \in 0..MaxRowIndex, c \in 0..MaxColIndex |->
        FormatAddress(getSheetCellAddress(r, c))]

\* getSheetCellAddress, then parseCellAddress of the address
ApplyCellAddress ==
    /\ probe.fn = "cellAddress" /\ ~probe.done
    /\ LET address == AddressText[probe.arg[1], probe.arg[2]]
       IN  Becomes([S EXCEPT !.probe.done = TRUE,
                             !.probe.threw = parseCellAddressThrows(address),
                             !.probe.out =
                                 [address |-> address,
                                  parsed |-> IF parseCellAddressThrows(address)
                                             THEN <<>>
                                             ELSE parseCellAddress(address)]])

\* getHeader, then getDataRows, as fetchSheetData calls them
ApplyParse ==
    /\ probe.fn = "parse" /\ ~probe.done
    /\ LET headers == getHeader(probe.arg) IN
       Becomes([S EXCEPT !.probe.done = TRUE,
                         !.probe.threw = getDataRowsThrows(probe.arg, Len(headers)),
                         !.probe.out =
                             [headers |-> headers,
                              dataRows |-> IF getDataRowsThrows(probe.arg, Len(headers))
                                           THEN <<>>
                                           ELSE getDataRows(probe.arg, Len(headers))]])

\* step 2 of updateCellWithCAS: the comparison fails
CasMismatch(currentValue, expectedValue) ==
    ~isEqualStatus(Trim(IF IsFalsy(currentValue) THEN <<>> ELSE currentValue),
                   Trim(IF IsFalsy(expectedValue) THEN <<>> ELSE expectedValue))

\* a cell that holds the value: the mark a load parses from it, the mark
\* updateCell sets for it, and the comparison of updateCellWithCAS between
\* the cell and the expected value that updateCell derives from each mark
ApplyCellValue ==
    /\ probe.fn = "cellValue" /\ ~probe.done
    /\ LET v == probe.arg
           throws == ParseAttendanceCellThrows(v)
           loaded == IF throws THEN NoMark ELSE ParseAttendanceCell(v)
           optimistic == newAttendanceItem(v)
       IN  Becomes([S EXCEPT
                      !.probe.done = TRUE,
                      !.probe.threw = throws,
                      !.probe.out =
                          [loaded |-> loaded,
                           optimistic |-> optimistic,
                           conflictAfterLoad |->
                               ~throws /\ CasMismatch(v, ExpectedValue(loaded)),
                           conflictAfterUpdate |->
                               CasMismatch(v, ExpectedValue(optimistic))]])

NextFn ==
    \/ ApplyCellValue
    \/ ApplyParseAttendanceCell
    \/ ApplyIsEqualStatus
    \/ ApplyCellAddress
    \/ ApplyParse

SpecFn == InitFn /\ [][NextFn]_vars

(***************************************************************************)
(* The hook with reset(): the consumer may also call reset(), and notes    *)
(* how many times it has and which calls it had made by then.              *)
(***************************************************************************)
\* lines 405-424: the newest controller is aborted, the states are set back
reset(s) ==
    [s EXCEPT !.aborted = IF s.abortControllerRef # 0
                          THEN @ \cup {s.abortControllerRef} ELSE @,
              !.data = NoData,
              !.loading = FALSE,
              !.error = <<>>,
              !.lastFetch = 0,
              !.cellUpdateLoading = FALSE,
              !.isAuthenticatedRef = FALSE]

\* what the consumer notes when it calls reset()
ResetNote(s) ==
    [op |-> "reset",
     resets |-> IF s.probe.op = "reset" THEN s.probe.resets + 1 ELSE 1,
     nextLoad |-> s.nextLoad,
     nextUpd |-> s.nextUpd]

Reset ==
    /\ events < MaxEvents
    /\ Becomes(reset([S EXCEPT !.events = @ + 1, !.probe = ResetNote(S)]))

NextReset ==
    \/ Next
    \/ Reset

SpecReset == Init /\ [][NextReset]_vars

(***************************************************************************)
(* Updates of a loaded model racing with another client: the consumer      *)
(* calls updateCell only, and the other client's writes are noted against  *)
(* the updates whose CAS read has been answered and whose write has not.   *)
(***************************************************************************)
\* the updates between step 1 and step 3 of updateCellWithCAS on this cell
InWindow(s, row, col) ==
    {u \in Upds : /\ s.upd[u].pc = "write"
                  /\ s.upd[u].readOk
                  /\ ~s.upd[u].wrote
                  /\ getSheetCellAddress(s.upd[u].rowIndex, s.upd[u].colIndex)
                       = [col |-> col, row |-> row]}

RaceNote(s, row, col) ==
    [op |-> "cas",
     raced |-> (IF s.probe.op = "cas" THEN s.probe.raced ELSE {})
               \cup InWindow(s, row, col)]

\* another client types a value into an attendance cell
OtherClientWriteNoted(row, col, v) ==
    /\ events < MaxEvents
    /\ CellOf(sheet, col, row) # v
    /\ Becomes([S EXCEPT !.sheet = SetCell(@, col, row, v),
                         !.events = @ + 1,
                         !.probe = RaceNote(S, row, col)])

NextCas ==
    \/ \E r \in RowInputs, c \in ColInputs, v \in NewValues :
          UpdateCell(r, c, v)
    \/ \E p \in Procs, x \in ExchangeOutcomes : HookAuthSettled(p, x)
    \/ \E p \in Procs, x \in ExchangeOutcomes : EnsureValidTokenSettled(p, x)
    \/ \E p \in Procs, st \in Statuses, t \in ServerTexts \cup {<<>>} :
          FirstResponse(p, st, t)
    \/ \E p \in Procs, x \in ExchangeOutcomes : ReauthSettled(p, x)
    \/ \E p \in Procs, st \in Statuses, t \in ServerTexts \cup {<<>>} :
          RetryResponse(p, st, t)
    \/ \E r \in 3..4, c \in 67..68, v \in RemoteValues :
          OtherClientWriteNoted(r, c, v)

\* the first load was one event of the environment
InitCas == Loaded /\ events = 1

SpecCas == InitCas /\ [][NextCas]_vars

(***************************************************************************)
(* The claims.                                                             *)
(***************************************************************************)

\* C1: updateCellWithCAS issues the write if and only if its read succeeded
\* and isEqualStatus holds between the value read and the expected value;
\* on a mismatch no write is issued, the sheet is not written by the call and
\* a conflict carrying the value read is reported.
C1_WriteGate ==
    \A u \in Upds :
        LET equal == isEqualStatus(upd[u].readValue, upd[u].currentValue) IN
        /\ upd[u].writeCalled <=> (upd[u].readOk /\ equal)
        /\ gw[u].kind = "write" => upd[u].writeCalled
        /\ upd[u].wrote => upd[u].writeCalled
        /\ (upd[u].readOk /\ ~equal) =>
              /\ upd[u].reported = "conflict"
              /\ upd[u].errValue = Trim(upd[u].readValue)
              /\ ~upd[u].wrote

C1_Witness ==
    \E u \in Upds :
        /\ upd[u].pc = "done"
        /\ upd[u].readOk
        /\ ~isEqualStatus(upd[u].readValue, upd[u].currentValue)
        /\ upd[u].outcome = "conflict"
        /\ ~upd[u].wrote

\* C2: when load #2 starts while load #1 is in flight and the response of #1
\* arrives after the response of #2, then once both have completed, with no
\* later load or update started, the model is the result of load #2.
C2_NoStaleOverwrite ==
    \A f \in Loads, g \in Loads :
        (/\ g = f + 1
         /\ nextLoad = g + 1
         /\ nextUpd = 101
         /\ load[f].superseded
         /\ load[f].pc = "done"
         /\ load[g].pc = "done"
         /\ load[g].outcome = "ok")
        => /\ data.rows = load[g].values
           /\ DataRowsOf(data, heap)
                = getDataRows(load[g].values, Len(getHeader(load[g].values)))

\* C3: a load that a newer load superseded while it was in flight never
\* applies its result to the model.
C3_LatestLoadWins ==
    \A f \in Loads : load[f].superseded => ~load[f].applied

\* C4: at the step where updateCell fails without a conflict after its
\* optimistic mutation, the mark at (rowIndex, colIndex) is again the mark it
\* was when updateCell was called.
C4_Rollback ==
    [][\A u \in Upds :
          (/\ upd[u].pc # "done"
           /\ upd'[u].pc = "done"
           /\ upd'[u].outcome = "error"
           /\ upd[u].optimistic)
          => MarkAt(DataRowsOf(data', heap'), upd[u].rowIndex, upd[u].colIndex)
               = upd[u].preMark]_vars

C6_ConflictOnlyOnMismatch ==
    \A u \in Upds :
        upd[u].reported = "conflict" <=>
            (upd[u].readOk /\ ~isEqualStatus(upd[u].readValue, upd[u].currentValue))

\* C7: a call of updateCell with no model, or with a row or column index out
\* of range, throws at once, starts no update and no request and leaves the
\* model, the error, the flags and the token cache as they are.
C7_Validation ==
    [][(/\ lastArgs'.called
        /\ \/ data.isNull
           \/ lastArgs'.rowIndex < 0
           \/ lastArgs'.rowIndex >= Len(DataRowsOf(data, heap))
           \/ lastArgs'.colIndex < 0
           \/ lastArgs'.colIndex >= Len(data.headers))
       => /\ lastArgs'.threw
          /\ UNCHANGED <<data, heap, error, loading, cellUpdateLoading, lastFetch,
                         upd, load, gw, nextUpd, nextLoad, exchanges,
                         accessToken, tokenExpiryTime, sheet,
                         isAuthenticatedRef>>]_vars

C7_Witness ==
    /\ lastArgs.called
    /\ lastArgs.threw
    /\ ~data.isNull
    /\ lastArgs.rowIndex \in 0..(Len(DataRowsOf(data, heap)) - 1)
    /\ lastArgs.colIndex = Len(data.headers)
    /\ nextUpd = 101

\* C8: no step of a load that does not succeed changes the model, from its
\* start on, and at the step where the load fails, in authentication or in
\* the fetch, error is set.
C8_FailedLoadKeepsModel ==
    [][\A f \in Loads :
          /\ (load'[f] # load[f] /\ load'[f].outcome # "ok") =>
                /\ data' = data
                /\ heap' = heap
          /\ (/\ load[f].pc \notin {"idle", "done"}
              /\ load'[f].pc = "done"
              /\ load'[f].outcome \in {"error", "autherror"})
             => error' # <<>>]_vars

C8_Witness ==
    \E f \in Loads :
        /\ load[f].outcome \in {"error", "autherror"}
        /\ ~data.isNull
        /\ DataRowsOf(data, heap) # <<>>
        /\ error # <<>>

\* C9 as stated: a call whose first response is 401 performs exactly one
\* re-authentication and re-sends the request exactly once.
C9_AlwaysResent ==
    lastCall.first = HTTP_UNAUTHORIZED =>
        /\ lastCall.reauth = 1
        /\ lastCall.reqs = 2

\* C9: at the step of a 401 first response the token cache is cleared; the
\* call then performs exactly one re-authentication and re-sends the request
\* once if that yields a valid token and not at all otherwise; a failure of
\* the re-sent request fails the call; no call sends more than two requests
\* and every step of a call brings it nearer to its end.
C9_RetryPolicy ==
    [][\A p \in Procs :
          LET Rank(c) == CASE c.pc = "ensurex" -> 4
                           [] c.pc = "req1" -> 3
                           [] c.pc = "reauthx" -> 2
                           [] c.pc = "req2" -> 1
                           [] OTHER -> 0
          IN
          /\ gw'[p].reqs <= 2
          /\ gw'[p].reauth <= 1
          /\ (gw[p].pc = "req1" /\ gw'[p].pc = "reauthx") =>
                /\ accessToken' = 0
                /\ tokenExpiryTime' = 0
                /\ gw'[p].first = HTTP_UNAUTHORIZED
          /\ (gw[p].pc # "none" /\ gw'[p] # gw[p] /\ gw'[p].kind = gw[p].kind) =>
                Rank(gw'[p]) < Rank(gw[p])
          /\ (lastCall'.proc = p /\ lastCall'.first = HTTP_UNAUTHORIZED) =>
                /\ lastCall'.reauth = 1
                /\ lastCall'.reqs = IF lastCall'.resend = "ok" THEN 2 ELSE 1
                /\ lastCall'.resend # "ok" => ~lastCall'.ok
                /\ lastCall'.ok <=> lastCall'.second = HTTP_OK]_vars

C9_Witness ==
    /\ lastCall.first = HTTP_UNAUTHORIZED
    /\ lastCall.reqs = 2
    /\ lastCall.second = HTTP_UNAUTHORIZED
    /\ ~lastCall.ok

\* C10: a call whose first response is a failure other than 401 has sent one
\* request and performed no re-authentication, fails with that status, and
\* leaves the token cache as it was when the response arrived.
C10_NoRetry ==
    lastCall.first \notin {0, HTTP_OK, HTTP_UNAUTHORIZED} =>
        /\ ~lastCall.ok
        /\ lastCall.status = lastCall.first
        /\ lastCall.reqs = 1
        /\ lastCall.reauth = 0
        /\ accessToken = lastCall.tok0
        /\ tokenExpiryTime = lastCall.exp0
        /\ gw[lastCall.proc].kind \in {"none"}

C10_Witness ==
    /\ lastCall.first = HTTP_SERVER_ERROR
    /\ lastCall.status = HTTP_SERVER_ERROR
    /\ lastCall.reqs = 1
    /\ accessToken # 0

\* C11: an ensureValidToken() call exchanges a token exactly when the cache
\* holds no valid token at the call; a call made while the token returned by
\* the call before it is cached and valid returns that same token, and the
\* two calls together have sent at most one token exchange request.
C11_TokenCaching ==
    \A i \in 1..Len(probe.log) :
        LET c == probe.log[i] IN
        /\ c.exchanged = 1 <=> ~c.valid0
        /\ c.valid0 => (~c.threw /\ c.token = c.cache0)
        /\ (i > 1 /\ c.valid0 /\ ~probe.log[i - 1].threw
              /\ c.cache0 = probe.log[i - 1].token) =>
              /\ c.token = probe.log[i - 1].token
              /\ c.exchanges = probe.log[i - 1].exchanges
              /\ c.exchanged + probe.log[i - 1].exchanged <= 1

C11_Witness ==
    \E i \in 2..Len(probe.log) :
        /\ probe.log[i - 1].exchanged = 1
        /\ probe.log[i].valid0
        /\ probe.log[i].exchanged = 0
        /\ probe.log[i].token = probe.log[i - 1].token
        /\ probe.log[i].token # 0

\* C12: a cached token obtained at t0 with declared lifetime L is valid, and
\* getToken returns it, exactly while now < t0 + (L - 300); otherwise
\* getAuthHeaders throws and an ensureValidToken() call exchanges a token.
C12_ValidityWindow ==
    LET inWindow == /\ accessToken # 0
                    /\ now < probe.t0 + (probe.lifetime - SAFETY_MARGIN)
    IN  /\ isTokenValid(S) <=> inWindow
        /\ getToken(S) = (IF inWindow THEN accessToken ELSE 0)
        /\ getAuthHeadersThrows(S) <=> ~inWindow
        /\ accessToken # 0 =>
              tokenExpiryTime = probe.t0 + (probe.lifetime - SAFETY_MARGIN)
        /\ \A i \in 1..Len(probe.log) :
              ~probe.log[i].valid0 => probe.log[i].exchanged = 1

C12_Witness ==
    /\ accessToken # 0
    /\ probe.lifetime = 302
    /\ now = probe.t0 + 2
    /\ ~isTokenValid(S)
    /\ \E i \in 1..Len(probe.log) :
          /\ probe.log[i].cache0 # 0
          /\ ~probe.log[i].valid0
          /\ probe.log[i].exchanged = 1

\* C13: after clearAuthentication() the cache holds no token and no expiry,
\* and the ensureValidToken() call that follows it exchanges a token and
\* returns the token of that exchange.
C13_InvalidateForcesExchange ==
    /\ probe.op = "clear" => (accessToken = 0 /\ tokenExpiryTime = 0)
    /\ \A i \in 1..Len(probe.log) :
          probe.log[i].cleared0 =>
              /\ probe.log[i].exchanged = 1
              /\ ~probe.log[i].threw => probe.log[i].token = probe.log[i].exchanges

C13_Witness ==
    \E i \in 2..Len(probe.log) :
        /\ probe.log[i].cleared0
        /\ probe.log[i].exchanged = 1
        /\ probe.log[i - 1].token # 0
        /\ probe.log[i].token \notin {0, probe.log[i - 1].token}

\* C14: in the model parsed from a grid, headers[i] and marks[i] of every
\* student come from the same column of the grid: the i-th column, from the
\* third on, whose label and date are both present.
C14_MarksAlignWithHeaders ==
    (probe.fn = "parse" /\ probe.done) =>
        LET values == probe.arg
            headers == probe.out.headers
            rows == probe.out.dataRows
            labels == IF Len(values) >= 1 THEN values[1] ELSE <<>>
            dates == IF Len(values) >= 2 THEN values[2] ELSE <<>>
            Kept(k) == ~IsFalsy(At(labels, k)) /\ ~IsFalsy(At(dates, k))
            ColumnOf(i) == CHOOSE k \in 3..Len(labels) :
                              Kept(k) /\ Cardinality({j \in 3..k : Kept(j)}) = i
            Named(r) == ~IsFalsy(At(values[r], 1)) /\ Trim(At(values[r], 1)) # <<>>
            RowOf(i) == CHOOSE r \in 3..Len(values) :
                           Named(r) /\ Cardinality({q \in 3..r : Named(q)}) = i
        IN  /\ ~probe.threw
            /\ Len(headers) = Cardinality({k \in 3..Len(labels) : Kept(k)})
            /\ \A i \in 1..Len(headers) :
                  headers[i].lecture = Trim(labels[ColumnOf(i)])
            /\ \A r \in 1..Len(rows) :
                  /\ Len(rows[r].attendance) = Len(headers)
                  /\ \A i \in 1..Len(headers) :
                        rows[r].attendance[i]
                          = ParseAttendanceCell(At(values[RowOf(r)], ColumnOf(i)))

\* C15: in every state every student record of the model has as many marks
\* as there are headers, and every mark has one of the statuses.
C15_OneMarkPerPair ==
    ~data.isNull =>
        \A r \in 1..Len(DataRowsOf(data, heap)) :
            LET marks == DataRowsOf(data, heap)[r].attendance IN
            /\ Len(marks) = Len(data.headers)
            /\ \A i \in 1..Len(marks) :
                  marks[i].status \in
                      {ATTENDANCE_STATUS.PRESENT, ATTENDANCE_STATUS.ABSENT,
                       ATTENDANCE_STATUS.ESSAY, ATTENDANCE_STATUS.LATE,
                       ATTENDANCE_STATUS.EARLY_LEAVE, ATTENDANCE_STATUS.OTHER_,
                       ATTENDANCE_STATUS.NONE}

C15_Witness ==
    \E u \in Upds :
        /\ upd[u].optimistic
        /\ upd[u].outcome = "error"
        /\ upd[u].colIndex = Len(data.headers) - 1
        /\ ~data.isNull
        /\ Len(DataRowsOf(data, heap)) = 2

\* C16: parseAttendanceCell returns a mark for every cell value: NONE for an
\* absent, empty, blank or "-" cell, ABSENT for "X", PRESENT for "O", the
\* status of the symbol with a display name for the essay, late and
\* early-leave symbols, and OTHER with the trimmed text for anything else.
C16_ParseMarkTotal ==
    (probe.fn = "parseAttendanceCell" /\ probe.done) =>
        LET t == IF probe.arg = Undefined THEN <<>> ELSE Trim(probe.arg) IN
        /\ ~probe.threw
        /\ t \in {<<>>, <<"-">>} =>
              probe.out = [status |-> <<"N", "o", "n", "e">>, desc |-> <<>>]
        /\ t = <<"X">> => probe.out = [status |-> <<"X">>, desc |-> <<>>]
        /\ t = <<"O">> => probe.out = [status |-> <<"O">>, desc |-> <<>>]
        /\ t \in {<<"<mieum>">>, <<"<i>">>, <<"<digeut>">>} =>
              (probe.out.status = t /\ probe.out.desc # <<>>)
        /\ t \notin {<<>>, <<"-">>, <<"X">>, <<"O">>, <<"<mieum>">>, <<"<i>">>,
                     <<"<digeut>">>} =>
              probe.out = [status |-> <<"E", "t", "c">>, desc |-> t]

\* C17: the step of updateCell that applies the optimistic mutation changes
\* the mark at (rowIndex, colIndex) and nothing else of the model: not the
\* other marks, the students, the headers or the raw grid.
C17_OptimisticFrame ==
    [][\A u \in Upds :
          (~upd[u].optimistic /\ upd'[u].optimistic) =>
              LET before == DataRowsOf(data, heap)
                  after == DataRowsOf(data', heap')
              IN  /\ data'.headers = data.headers
                  /\ data'.rows = data.rows
                  /\ Len(after) = Len(before)
                  /\ \A r \in 1..Len(before) :
                        /\ after[r].user = before[r].user
                        /\ Len(after[r].attendance) = Len(before[r].attendance)
                        /\ \A c \in 1..Len(before[r].attendance) :
                              (r - 1 # upd'[u].rowIndex \/ c - 1 # upd'[u].colIndex)
                              => after[r].attendance[c] = before[r].attendance[c]]_vars

\* C18: for all rowIndex >= 0 and colIndex >= 0, parseCellAddress of the
\* address that getSheetCellAddress builds does not throw and returns
\* rowIndex and colIndex.
C18_AddressRoundTrip ==
    (probe.fn = "cellAddress" /\ probe.done) =>
        /\ ~probe.threw
        /\ probe.out.parsed = [rowIndex |-> probe.arg[1], colIndex |-> probe.arg[2]]

\* C19: for rowIndex >= 0 and colIndex in 0..23 the address is the letter
\* colIndex letters after "C" followed by rowIndex + 3 in decimal, (0,0)
\* gives "C3" and (2,1) gives "D5"; the CAS read and write of updateCell go to
\* the address of its rowIndex and colIndex.
C19_AddressOffsets ==
    LET Alphabet == <<"A", "B", "C", "D", "E", "F", "G", "H", "I", "J", "K", "L",
                      "M", "N", "O", "P", "Q", "R", "S", "T", "U", "V", "W", "X",
                      "Y", "Z">>
        Address(r, c) == AddressText[r, c]
    IN  /\ \A r \in 0..MaxRowIndex, c \in 0..23 :
              LET a == Address(r, c)
                  digits == SubSeq(a, 2, Len(a))
              IN  /\ a[1] = Alphabet[3 + c]
                  /\ Len(digits) >= 1
                  /\ \A i \in 1..Len(digits) : IsDigit(digits[i])
                  /\ digits[1] # "0"
                  /\ LeadingDigits(digits, 0) = r + 3
        /\ Address(0, 0) = <<"C", "3">>
        /\ Address(2, 1) = <<"D", "5">>
        /\ \A u \in Upds :
              gw[u].kind \in {"cell", "write"} =>
                  FormatAddress([col |-> gw[u].col, row |-> gw[u].row])
                    = Address(upd[u].rowIndex, upd[u].colIndex)

C19_Witness ==
    \E u \in Upds :
        /\ gw[u].kind = "write"
        /\ upd[u].rowIndex = 1
        /\ upd[u].colIndex = 1
        /\ FormatAddress([col |-> gw[u].col, row |-> gw[u].row]) = <<"D", "4">>

\* C20: isEqualStatus is reflexive, symmetric and transitive; two values
\* whose trimmed, case-folded text is one of "", "-", "none", "null",
\* "undefined", the not-recorded word and "n/a" (or that are undefined) are
\* equal; two values outside that set are equal exactly when their trimmed,
\* case-folded texts are; "O" and "X" are not equal.
C20_StatusEquality ==
    (probe.fn = "isEqualStatus" /\ probe.done) =>
        LET eq == probe.out
            Fold(i) == IF probe.arg[i] = Undefined THEN <<>>
                       ELSE ToLowerCase(Trim(probe.arg[i]))
            Empty(i) == Fold(i) \in
                          {<<>>, <<"-">>, <<"n", "o", "n", "e">>,
                           <<"n", "u", "l", "l">>,
                           <<"u", "n", "d", "e", "f", "i", "n", "e", "d">>,
                           <<"<mi>", "<gi>", "<rok>">>, <<"n", "/", "a">>}
        IN  \A i \in 1..3, j \in 1..3, k \in 1..3 :
               /\ eq[i][i]
               /\ eq[i][j] = eq[j][i]
               /\ (eq[i][j] /\ eq[j][k]) => eq[i][k]
               /\ (Empty(i) /\ Empty(j)) => eq[i][j]
               /\ (~Empty(i) /\ ~Empty(j)) => (eq[i][j] <=> Fold(i) = Fold(j))
               /\ (probe.arg[i] = <<"O">> /\ probe.arg[j] = <<"X">>) => ~eq[i][j]

C20_Witness ==
    /\ probe.fn = "isEqualStatus"
    /\ probe.done
    /\ probe.arg = <<<<"-">>, <<"N", "o", "n", "e">>, <<" ", "O">>>>
    /\ probe.out[1][2]
    /\ ~probe.out[2][3]

\* C21: getHeader gives one entry, in column order, for every column from
\* the third on whose label and date are both non-empty, with the trimmed
\* label and the parsed date (null when the text is not three numbers
\* separated by dots), no entry for any other column, and never more entries
\* than the grid has columns after the second, none for a narrower grid.
C21_HeaderSkip ==
    (probe.fn = "parse" /\ probe.done) =>
        LET values == probe.arg
            headers == probe.out.headers
            labels == IF Len(values) >= 1 THEN values[1] ELSE <<>>
            dates == IF Len(values) >= 2 THEN values[2] ELSE <<>>
            Cell(row, k) == IF k <= Len(row) THEN row[k] ELSE <<>>
            numColumns == IF values = <<>> THEN 0
                          ELSE CHOOSE n \in {Len(values[r]) : r \in 1..Len(values)} :
                                  \A r \in 1..Len(values) : Len(values[r]) <= n
            KeptCols == {k \in 3..numColumns :
                            Cell(labels, k) # <<>> /\ Cell(dates, k) # <<>>}
            ColumnOf(i) == CHOOSE k \in KeptCols :
                              Cardinality({j \in KeptCols : j <= k}) = i
            Expected(text) ==
                CASE text = <<"1", ".", "2", ".", "3">> ->
                        [isNull |-> FALSE, year |-> 1, month |-> 2, day |-> 3]
                  [] text = <<"1", ".", "2", ".", "4">> ->
                        [isNull |-> FALSE, year |-> 1, month |-> 2, day |-> 4]
                  [] text = <<"2", "0", "2", "5", ".", " ", "9", ".", " ", "1", "0">> ->
                        [isNull |-> FALSE, year |-> 2025, month |-> 9, day |-> 10]
                  [] text \in {<<"1">>, <<"2">>, <<"3">>} \cup DateTexts \cup {<<"x">>} ->
                        NoDate
        IN  /\ Len(headers) = Cardinality(KeptCols)
            /\ \A i \in 1..Len(headers) :
                  /\ headers[i].lecture = Trim(labels[ColumnOf(i)])
                  /\ headers[i].date = Expected(dates[ColumnOf(i)])
            /\ Len(headers) <= (IF numColumns >= 2 THEN numColumns - 2 ELSE 0)

\* C21 as stated: the same, with len(headers) <= numColumns - 2 for every grid.
C21_HeaderSkipAllGrids ==
    (probe.fn = "parse" /\ probe.done) =>
        LET values == probe.arg
            headers == probe.out.headers
            labels == IF Len(values) >= 1 THEN values[1] ELSE <<>>
            dates == IF Len(values) >= 2 THEN values[2] ELSE <<>>
            Cell(row, k) == IF k <= Len(row) THEN row[k] ELSE <<>>
            numColumns == IF values = <<>> THEN 0
                          ELSE CHOOSE n \in {Len(values[r]) : r \in 1..Len(values)} :
                                  \A r \in 1..Len(values) : Len(values[r]) <= n
            KeptCols == {k \in 3..numColumns :
                            Cell(labels, k) # <<>> /\ Cell(dates, k) # <<>>}
        IN  /\ Len(headers) = Cardinality(KeptCols)
            /\ Len(headers) <= numColumns - 2

C21_Witness ==
    /\ probe.fn = "parse"
    /\ probe.done
    /\ Len(probe.arg) = 5
    /\ probe.arg[2][3] = <<>>
    /\ probe.arg[2][4] = <<"x">>
    /\ Len(probe.out.headers) = 1
    /\ probe.out.headers[1] = [lecture |-> <<"b">>, date |-> NoDate]

\* C22: getDataRows gives one record, in row order, for every row from the
\* third on whose name is not empty after trimming, none for any other row,
\* no record with an empty or whitespace-only name, and never more records
\* than the grid has rows after the second, none for a shorter grid.
C22_RosterNameFilter ==
    (probe.fn = "parse" /\ probe.done /\ ~probe.threw) =>
        LET values == probe.arg
            roster == probe.out.dataRows
            Cell(row, k) == IF k <= Len(row) THEN row[k] ELSE <<>>
            KeptRows == {r \in 3..Len(values) : Trim(Cell(values[r], 1)) # <<>>}
            RowOf(i) == CHOOSE r \in KeptRows :
                           Cardinality({q \in KeptRows : q <= r}) = i
        IN  /\ Len(roster) = Cardinality(KeptRows)
            /\ \A i \in 1..Len(roster) :
                  /\ roster[i].user.name = Trim(Cell(values[RowOf(i)], 1))
                  /\ roster[i].user.class = Trim(Cell(values[RowOf(i)], 2))
                  /\ roster[i].user.name # <<>>
                  /\ \E j \in 1..Len(roster[i].user.name) :
                        roster[i].user.name[j] # " "
            /\ Len(roster) <= (IF Len(values) >= 2 THEN Len(values) - 2 ELSE 0)

\* C22 as stated: the same, with len(roster) <= numRows - 2 for every grid.
C22_RosterNameFilterAllGrids ==
    (probe.fn = "parse" /\ probe.done /\ ~probe.threw) =>
        LET values == probe.arg
            roster == probe.out.dataRows
            Cell(row, k) == IF k <= Len(row) THEN row[k] ELSE <<>>
            KeptRows == {r \in 3..Len(values) : Trim(Cell(values[r], 1)) # <<>>}
        IN  /\ Len(roster) = Cardinality(KeptRows)
            /\ Len(roster) <= Len(values) - 2

C22_Witness ==
    /\ probe.fn = "parse"
    /\ probe.done
    /\ Len(probe.arg) = 5
    /\ probe.arg[3][1] = <<" ">>
    /\ probe.arg[5][1] = <<" ", "P", "a", "k", " ">>
    /\ Len(probe.out.dataRows) = 2
    /\ probe.out.dataRows[1].user.name = <<"L", "e", "e">>
    /\ probe.out.dataRows[2].user.name = <<"P", "a", "k">>

\* C23: after reset(), and until fetchData is called again, the model is
\* null: no fetch and no updateCell that was in flight at the reset sets it.
C23_ResetCancels ==
    (probe.op = "reset" /\ nextLoad = probe.nextLoad) => data.isNull

\* C24: the step of reset() leaves no access token cached and the session
\* reports isAuthenticated false.
C24_ResetClearsAuth ==
    [][(probe'.op = "reset" /\ probe' # probe) =>
          (accessToken' = 0 /\ ~isTokenValid(S'))]_vars

\* C25: whenever an updateCell call has a network request of its own out (the
\* token exchange of its authenticate(), its CAS read or its write), its
\* optimistic mark has been applied.
C25_OptimisticBeforeNetwork ==
    \A u \in Upds :
        (upd[u].pc = "auth" \/ gw[u].pc # "none") => upd[u].optimistic

\* C26: when the write of an update is applied it replaces whatever the
\* target cell holds and the update ends without a conflict, also when
\* another client wrote the cell after the update's read; and the value
\* replaced is status-equal to the expected value unless the cell was
\* written between the read and the write, by another client or by another
\* updateCell of this session on the same cell.
C26_RaceWindow ==
    [][\A u \in Upds :
          (~upd[u].wrote /\ upd'[u].wrote) =>
              LET addr == getSheetCellAddress(upd[u].rowIndex, upd[u].colIndex)
                  replaced == CellOf(sheet, addr.col, addr.row)
                  raced == IF probe.op = "cas" THEN probe.raced ELSE {}
              IN  /\ CellOf(sheet', addr.col, addr.row) = upd[u].newValue
                  /\ upd'[u].outcome = "ok"
                  /\ upd'[u].reported = "none"
                  /\ ~isEqualStatus(replaced, upd[u].currentValue) =>
                        \/ u \in raced
                        \/ \E w \in Upds \ {u} :
                              /\ upd[w].wrote
                              /\ upd[w].rowIndex = upd[u].rowIndex
                              /\ upd[w].colIndex = upd[u].colIndex]_vars

\* C26 as stated: the value replaced is status-equal to the expected value
\* unless another client wrote the cell between the read and the write.
C26_OnlyOtherClients ==
    [][\A u \in Upds :
          (~upd[u].wrote /\ upd'[u].wrote) =>
              LET addr == getSheetCellAddress(upd[u].rowIndex, upd[u].colIndex)
                  replaced == CellOf(sheet, addr.col, addr.row)
                  raced == IF probe.op = "cas" THEN probe.raced ELSE {}
              IN  ~isEqualStatus(replaced, upd[u].currentValue) => u \in raced]_vars

C26_Witness ==
    \E u \in Upds :
        /\ probe.op = "cas"
        /\ u \in probe.raced
        /\ upd[u].wrote
        /\ upd[u].outcome = "ok"
        /\ isEqualStatus(upd[u].readValue, upd[u].currentValue)
        /\ CellOf(sheet, getColAddress(upd[u].colIndex), getRowAddress(upd[u].rowIndex))
             = upd[u].newValue

\* C27: for every student of the parsed roster, the row address of the
\* student's index is the row of the grid the student was parsed from, also
\* when a row without a name lies above.
C27_RowAddressMatchesStudent ==
    (probe.fn = "parse" /\ probe.done /\ ~probe.threw) =>
        LET values == probe.arg
            roster == probe.out.dataRows
        IN  \A i \in 1..Len(roster) :
               /\ getRowAddress(i - 1) <= Len(values)
               /\ At(values[getRowAddress(i - 1)], 1) # Undefined
               /\ Trim(At(values[getRowAddress(i - 1)], 1)) = roster[i].user.name

\* C28: for every content of a cell, the expected value that updateCell
\* derives from the mark a load parsed from the cell, or from the mark its
\* own update set for the value it wrote, is status-equal to the cell: the
\* comparison of updateCellWithCAS raises no conflict.
C28_NoFalseConflict ==
    (probe.fn = "cellValue" /\ probe.done) =>
        /\ ~probe.out.conflictAfterLoad
        /\ probe.arg # Undefined => ~probe.out.conflictAfterUpdate

C28_Witness ==
    /\ probe.fn = "cellValue"
    /\ probe.done
    /\ probe.arg = <<" ", "s", "i", "c", "k", " ">>
    /\ probe.out.loaded = [status |-> <<"E", "t", "c">>, desc |-> <<"s", "i", "c", "k">>]
    /\ ~probe.out.conflictAfterLoad
    /\ ~probe.out.conflictAfterUpdate

\* C29: for every new value, the mark that updateCell leaves in the model is
\* the mark that parseAttendanceCell gives for that value.
C29_OptimisticEqualsReloaded ==
    (probe.fn = "cellValue" /\ probe.done /\ probe.arg # Undefined) =>
        /\ ~probe.threw
        /\ probe.out.optimistic = probe.out.loaded

\* C30: when an updateCell fails with an error that is not a conflict while
\* the model is one that a later load has applied since the call started, the
\* model after the rollback is still that one: same headers, same students
\* and the same marks, except possibly the mark of the target cell.
C30_RollbackKeepsNewerModel ==
    [][\A u \in Upds :
          (/\ upd[u].outcome = "none"
           /\ upd'[u].outcome = "error"
           /\ ~data.isNull
           /\ data.dataRows > upd[u].data.dataRows
           /\ load[data.dataRows].applied) =>
              LET before == DataRowsOf(data, heap)
                  after == DataRowsOf(data', heap')
              IN  /\ data'.headers = data.headers
                  /\ Len(after) = Len(before)
                  /\ \A r \in 1..Len(before) :
                        /\ after[r].user = before[r].user
                        /\ Len(after[r].attendance) = Len(before[r].attendance)
                        /\ \A c \in 1..Len(before[r].attendance) :
                              (r - 1 # upd[u].rowIndex \/ c - 1 # upd[u].colIndex)
                              => after[r].attendance[c] = before[r].attendance[c]]_vars

(***************************************************************************)
(* C31: the loading indicator tracks the foreground loads in flight.       *)
(* Whenever a fetchData call started with showLoading is still in flight,  *)
(* loading is TRUE, also when several loads overlap and an earlier one     *)
(* finishes first; and when no fetchData call is in flight, loading is     *)
(* FALSE.                                                                  *)
(***************************************************************************)
C31_LoadingTracksLoads ==
    LET InFlight(f) == load[f].pc \notin {"idle", "done"} IN
    /\ (\E f \in Loads : InFlight(f) /\ load[f].showLoading) => loading
    /\ (\A f \in Loads : ~InFlight(f)) => ~loading

(***************************************************************************)
(* C32: cellUpdateLoading is TRUE from the start of every updateCell call  *)
(* that passes the validation until that call returns or throws, and it is *)
(* FALSE when every such call has finished, whatever the outcome.          *)
(***************************************************************************)
C32_MutatingFlag ==
    LET InFlight(u) == upd[u].pc \notin {"idle", "done"} IN
    /\ (\E u \in Upds : InFlight(u)) => cellUpdateLoading
    /\ (\A u \in Upds : ~InFlight(u)) => ~cellUpdateLoading

(***************************************************************************)
(* C33: in every makeApiRequest call, when ensureValidToken() resolves     *)
(* without error, the getAuthHeaders() that follows finds a valid cached   *)
(* token and does not throw, so the request is sent: for every lifetime    *)
(* the token endpoint declares, and also while another authentication is   *)
(* running or has failed.                                                  *)
(***************************************************************************)
C33_EnsuredTokenUsable ==
    [][\A p \in Procs, x \in ExchangeOutcomes :
          (x.kind = "ok" /\ EnsureValidTokenSettled(p, x)) =>
              /\ isTokenValid(S')
              /\ gw'[p].pc = "req1"
              /\ gw'[p].reqs = 1]_vars
====
